---- MODULE Spec2Model ----
(***************************************************************************)
(* FaissIndex (faiss_vectorizer.py) over the DataFrame produced by         *)
(* NginxAccessLogParser (nginx_access_log_parser.py).                      *)
(*                                                                         *)
(* A Python str is a sequence of one-character strings.  Real numbers are  *)
(* fixed point: float64 values carry F64Scale, float32 values F32Scale.    *)
(* The state is the FaissIndex object after __init__; build_index and      *)
(* search are the two operations on it.  faissChecksK is the installed     *)
(* faiss: whether its search wrapper asserts k > 0.  builds and ret record *)
(* the calls made: how many builds, and what the last call gave back.      *)
(***************************************************************************)
EXTENDS Integers, Sequences, FiniteSets, TLC

VARIABLES df, vectorizers, indices, vectors, faissChecksK, builds, ret

vars == <<df, vectorizers, indices, vectors, faissChecksK, builds, ret>>

\* The attributes of the FaissIndex object.
engine == <<df, vectorizers, indices, vectors>>

-----------------------------------------------------------------------------
\* Bounds of the model.

\* Longest access log (lines) given to the constructor.
MaxLines == 3

\* Largest k passed to search.
MaxK == 2

-----------------------------------------------------------------------------
\* Python str.

WordChars == {"0", "1", "2", "3", "4", "5", "6", "7", "8", "9", "_",
              "a", "b", "c", "d", "z", "A", "B", "C", "D"}

Digits == {"0", "1", "2", "3", "4", "5", "6", "7", "8", "9"}

Whitespace == {" "}

\* Unicode code point of the characters in use (ord).
Ord(c) ==
    CASE c = " " -> 32 [] c = "\"" -> 34 [] c = "+" -> 43 [] c = "-" -> 45
      [] c = "." -> 46 [] c = "/" -> 47
      [] c = "0" -> 48 [] c = "1" -> 49 [] c = "2" -> 50 [] c = "3" -> 51
      [] c = "4" -> 52 [] c = "5" -> 53 [] c = "6" -> 54 [] c = "7" -> 55
      [] c = "8" -> 56 [] c = "9" -> 57 [] c = ":" -> 58
      [] c = "A" -> 65 [] c = "B" -> 66 [] c = "C" -> 67 [] c = "D" -> 68
      [] c = "]" -> 93 [] c = "_" -> 95
      [] c = "a" -> 97 [] c = "b" -> 98 [] c = "c" -> 99 [] c = "d" -> 100
      [] c = "z" -> 122

\* str.lower on one character.
LowerChar(c) ==
    CASE c = "A" -> "a" [] c = "B" -> "b" [] c = "C" -> "c" [] c = "D" -> "d"
      [] OTHER -> c

\* str.lower
RECURSIVE Lower(_)
Lower(s) == IF Len(s) = 0 THEN <<>> ELSE <<LowerChar(Head(s))>> \o Lower(Tail(s))

\* s < t in Python's str ordering (lexicographic by code point).
RECURSIVE StrLess(_, _)
StrLess(s, t) ==
    IF Len(t) = 0 THEN FALSE
    ELSE IF Len(s) = 0 THEN TRUE
    ELSE IF Ord(Head(s)) # Ord(Head(t)) THEN Ord(Head(s)) < Ord(Head(t))
    ELSE StrLess(Tail(s), Tail(t))

\* sorted(S) for a set of str.
RECURSIVE Sorted(_)
Sorted(S) ==
    IF S = {} THEN <<>>
    ELSE LET m == CHOOSE x \in S : \A y \in S \ {x} : StrLess(x, y)
         IN  <<m>> \o Sorted(S \ {m})

\* The elements of a sequence.
Range(s) == {s[i] : i \in 1..Len(s)}

\* Number of positions of seq holding x.
Count(seq, x) == Cardinality({i \in 1..Len(seq) : seq[i] = x})

\* The sequence held as a dense array (numpy .toarray(), list(...)).
Array(s) == s \o <<>>

\* Sum of a sequence of integers.
RECURSIVE SumSeq(_)
SumSeq(s) == IF Len(s) = 0 THEN 0 ELSE Head(s) + SumSeq(Tail(s))

-----------------------------------------------------------------------------
\* nginx_access_log_parser.py

\* A log line, cut at the literal separators of log_pattern into the text
\* each named group has to match.  The timestamp text dd/Mon/yyyy:HH:MM:SS +zz00
\* is held by its components.
ColumnOrder == <<"ip_address", "timestamp", "method", "url", "http_protocol",
                 "status", "size", "referer", "user_agent">>

NoDatetime == [year |-> 0, month |-> 0, day |-> 0, hour |-> 0, minute |-> 0,
               second |-> 0, tzh |-> 0]

\* A DataFrame cell: a Python str or a datetime.
StrCell(s) == [kind |-> "str", str |-> s, dt |-> NoDatetime]

DatetimeCell(d) == [kind |-> "datetime", str |-> <<>>, dt |-> d]

\* \S+
NonSpace1(s) == Len(s) >= 1 /\ \A i \in 1..Len(s) : s[i] \notin Whitespace

\* [^"]*
NoQuote(s) == \A i \in 1..Len(s) : s[i] # "\""

\* log_pattern.match(line): every group matches its segment.
LogPatternMatch(line) ==
    /\ NonSpace1(line.ip_address)
    /\ NonSpace1(line.method)
    /\ NonSpace1(line.url)
    /\ Len(line.http_protocol) >= 1 /\ NoQuote(line.http_protocol)
    /\ Len(line.status) = 3 /\ \A i \in 1..3 : line.status[i] \in Digits
    /\ \/ line.size = <<"-">>
       \/ Len(line.size) >= 1 /\ \A i \in 1..Len(line.size) : line.size[i] \in Digits
    /\ NoQuote(line.referer)
    /\ NoQuote(line.user_agent)

\* %b
MonthNumber(b) ==
    CASE b = "Jan" -> 1 [] b = "Feb" -> 2 [] b = "Mar" -> 3 [] b = "Apr" -> 4
      [] b = "May" -> 5 [] b = "Jun" -> 6 [] b = "Jul" -> 7 [] b = "Aug" -> 8
      [] b = "Sep" -> 9 [] b = "Oct" -> 10 [] b = "Nov" -> 11 [] b = "Dec" -> 12

\* datetime.strptime(text, '%d/%b/%Y:%H:%M:%S %z')
Strptime(t) ==
    [year |-> t.Y, month |-> MonthNumber(t.b), day |-> t.d, hour |-> t.H,
     minute |-> t.M, second |-> t.S, tzh |-> t.z]

\* match.groupdict() with the timestamp replaced by the parsed datetime.
Entry(line) ==
    [c \in Range(ColumnOrder) |->
        IF c = "timestamp" THEN DatetimeCell(Strptime(line.timestamp))
        ELSE StrCell(line[c])]

\* The loop of parse_log: the entries of the matching lines, in file order.
RECURSIVE LogEntries(_)
LogEntries(lines) ==
    IF Len(lines) = 0 THEN <<>>
    ELSE (IF LogPatternMatch(Head(lines)) THEN <<Entry(Head(lines))>> ELSE <<>>)
         \o LogEntries(Tail(lines))

\* pd.DataFrame(log_entries): a frame of no entries has no columns.
DataFrame(entries) ==
    [columns |-> IF Len(entries) = 0 THEN {} ELSE Range(ColumnOrder),
     rows    |-> entries]

parse_log(lines) == DataFrame(LogEntries(lines))

\* str(value) of a cell, as Series.astype(str) applies it.
Digit(n) == CHOOSE c \in Digits : Ord(c) = 48 + n

Pad2(n) == <<Digit((n \div 10) % 10), Digit(n % 10)>>

Pad4(n) == <<Digit((n \div 1000) % 10), Digit((n \div 100) % 10)>> \o Pad2(n)

DatetimeStr(d) ==
    Pad4(d.year) \o <<"-">> \o Pad2(d.month) \o <<"-">> \o Pad2(d.day) \o <<" ">>
    \o Pad2(d.hour) \o <<":">> \o Pad2(d.minute) \o <<":">> \o Pad2(d.second)
    \o <<"+">> \o Pad2(d.tzh) \o <<":", "0", "0">>

PyStr(cell) == IF cell.kind = "datetime" THEN DatetimeStr(cell.dt) ELSE cell.str

\* self.df[field] = self.df[field].astype(str)
AsTypeStr(frame, field) ==
    [frame EXCEPT !.rows =
        [i \in 1..Len(frame.rows) |->
            [frame.rows[i] EXCEPT ![field] = StrCell(PyStr(frame.rows[i][field]))]]]

\* list(self.df[field])
Column(frame, field) == Array([i \in 1..Len(frame.rows) |-> frame.rows[i][field].str])

-----------------------------------------------------------------------------
\* TfidfVectorizer() with its default parameters: lowercase, token pattern
\* (?u)\b\w\w+\b, smooth idf, l2 norm.

F64Scale == 10000

F32Scale == 1000

\* numpy .astype('float32'): the value at the lesser precision.
AsFloat32(x) == x \div (F64Scale \div F32Scale)

\* 100 * ln(n), rounded.
Ln100(n) ==
    CASE n = 1 -> 0 [] n = 2 -> 69 [] n = 3 -> 110 [] n = 4 -> 139
      [] n = 5 -> 161 [] n = 6 -> 179 [] n = 7 -> 195 [] n = 8 -> 208

\* Largest r with r * r <= x, by bisection on lo..hi.
RECURSIVE IsqrtIn(_, _, _)
IsqrtIn(x, lo, hi) ==
    IF lo >= hi THEN lo
    ELSE LET mid == (lo + hi + 1) \div 2
         IN  IF mid * mid <= x THEN IsqrtIn(x, mid, hi) ELSE IsqrtIn(x, lo, mid - 1)

Isqrt(x) == IsqrtIn(x, 0, 46340)

\* The maximal runs of word characters of s from position i on, cur being the
\* run in progress; runs of fewer than two characters do not match \w\w+.
RECURSIVE TokensFrom(_, _, _)
TokensFrom(s, i, cur) ==
    LET done == IF Len(cur) >= 2 THEN <<cur>> ELSE <<>>
    IN  IF i > Len(s) THEN done
        ELSE IF s[i] \in WordChars THEN TokensFrom(s, i + 1, Append(cur, s[i]))
        ELSE done \o TokensFrom(s, i + 1, <<>>)

\* build_analyzer(): lowercase, then tokenize.
Analyze(text) == TokensFrom(Lower(text), 1, <<>>)

Unfitted == [fitted |-> FALSE, vocabulary |-> <<>>, idf |-> <<>>]

\* The token lists of the documents.
AnalyzeAll(docs) == Array([i \in 1..Len(docs) |-> Analyze(docs[i])])

\* The terms of the analysed documents, sorted: term j is column j of the
\* matrix.
Vocabulary(toks) == Sorted(UNION {Range(toks[i]) : i \in 1..Len(toks)})

\* Number of documents holding the term.
DocFreq(toks, term) == Cardinality({i \in 1..Len(toks) : term \in Range(toks[i])})

\* idf(t) = ln((1 + n) / (1 + df(t))) + 1, times 100.
Idf(toks, term) == Ln100(1 + Len(toks)) - Ln100(1 + DocFreq(toks, term)) + 100

\* vectorizer.fit(docs) raises ValueError("empty vocabulary") when no
\* document yields a term.
FitRaises(docs) == \A i \in 1..Len(docs) : Analyze(docs[i]) = <<>>

\* The fitted state after vectorizer.fit(docs).
Fit(docs) ==
    LET toks == AnalyzeAll(docs)
        voc  == Vocabulary(toks)
    IN  [fitted     |-> TRUE,
         vocabulary |-> voc,
         idf        |-> Array([j \in 1..Len(voc) |-> Idf(toks, voc[j])])]

\* vectorizer.transform([text]).toarray()[0]: tf * idf, divided by its
\* Euclidean norm unless that is zero; terms outside the vocabulary count
\* for nothing.
Transform(vz, text) ==
    LET toks == Analyze(text)
        w    == Array([j \in 1..Len(vz.vocabulary) |->
                          Count(toks, vz.vocabulary[j]) * vz.idf[j]])
        norm == Isqrt(SumSeq([j \in 1..Len(w) |-> w[j] * w[j]]))
    IN  Array([j \in 1..Len(w) |-> IF norm = 0 THEN 0 ELSE (w[j] * F64Scale) \div norm])

\* The documents without their repeats, first occurrences in order.
RECURSIVE Unique(_)
Unique(docs) ==
    IF Len(docs) = 0 THEN <<>>
    ELSE LET front == Unique(SubSeq(docs, 1, Len(docs) - 1))
             last  == docs[Len(docs)]
         IN  IF last \in Range(front) THEN front ELSE Append(front, last)

\* Mutant of TransformAll: one row per distinct value, not per record.
TransformAllUnique(vz, docs) ==
    Array([i \in 1..Len(Unique(docs)) |->
              LET row == Transform(vz, Unique(docs)[i])
              IN  Array([j \in 1..Len(row) |-> AsFloat32(row[j])])])

\* vectorizer.transform(docs).toarray().astype('float32')
TransformAll(vz, docs) ==
    Array([i \in 1..Len(docs) |->
              LET row == Transform(vz, docs[i])
              IN  Array([j \in 1..Len(row) |-> AsFloat32(row[j])])])

-----------------------------------------------------------------------------
\* faiss.IndexFlatL2

\* faiss.IndexFlatL2(dimension)
IndexFlatL2(dimension) == [d |-> dimension, xb |-> <<>>]

\* index.add(x): the rows of x appended to the stored rows.
IndexAdd(index, x) == [index EXCEPT !.xb = index.xb \o x]

\* Squared Euclidean distance.
L2Sqr(x, y) == SumSeq([j \in 1..Len(x) |-> (x[j] - y[j]) * (x[j] - y[j])])

\* The distance of q to every stored row.
Distances(index, q) == Array([i \in 1..Len(index.xb) |-> L2Sqr(q, index.xb[i])])

\* Mutant of Before: rows as near come in descending label order.
BeforeTiesLast(dist, i, j) == dist[i] < dist[j] \/ (dist[i] = dist[j] /\ i > j)

\* Row i comes before row j in the result: nearer, or as near with the
\* lesser label.
Before(dist, i, j) == dist[i] < dist[j] \/ (dist[i] = dist[j] /\ i < j)

\* The rows ranked by their distances (1-based rows).
RECURSIVE Ranked(_, _)
Ranked(dist, rows) ==
    IF rows = {} THEN <<>>
    ELSE LET m == CHOOSE i \in rows : \A j \in rows \ {i} : Before(dist, i, j)
         IN  <<m>> \o Ranked(dist, rows \ {m})

\* The labels of index.search(q, k): the k nearest rows as 0-based labels,
\* and the label -1 at every place past the stored rows.
SearchLabels(index, q, k) ==
    LET r == Ranked(Distances(index, q), 1..Len(index.xb))
    IN  Array([p \in 1..k |-> IF p <= Len(r) THEN r[p] - 1 ELSE -1])

-----------------------------------------------------------------------------
\* faiss_vectorizer.py: class FaissIndex

\* self.vectorizers, in the order the dict is written and iterated.
FieldOrder == <<"url", "timestamp", "status", "user_agent", "ip_address">>

Fields == Range(FieldOrder)

\* A Python dict is a function on its keys; d[key] = value.
EmptyDict == <<>>

Put(d, key, value) == (key :> value) @@ d

\* The part of __init__ after parse_log.
InitVectorizers == [f \in Fields |-> Unfitted]

\* Mutant of FreshIndex: a field's earlier index is kept and added to.
ReusedIndex(st, field, dimension) ==
    IF field \in DOMAIN st.indices THEN st.indices[field] ELSE IndexFlatL2(dimension)

\* The index build_index makes for a field: a new faiss.IndexFlatL2(dimension).
FreshIndex(st, field, dimension) == IndexFlatL2(dimension)

\* One pass of the loop body of build_index, on the attribute values st;
\* exc names the exception that leaves the loop, "None" if there is none.
BuildField(st, field) ==
    IF field \notin st.df.columns
    THEN [st EXCEPT !.exc = "KeyError"]
    ELSE LET frame == AsTypeStr(st.df, field)
             docs  == Column(frame, field)
         IN  IF FitRaises(docs)
             THEN [st EXCEPT !.df = frame, !.exc = "ValueError"]
             ELSE LET vz        == Fit(docs)
                      x         == TransformAll(vz, docs)
                      dimension == Len(x[1])
                      index     == IndexAdd(FreshIndex(st, field, dimension), x)
                  IN  [df          |-> frame,
                       vectorizers |-> [st.vectorizers EXCEPT ![field] = vz],
                       vectors     |-> Put(st.vectors, field, x),
                       indices     |-> Put(st.indices, field, index),
                       exc         |-> "None"]

\* The loop of build_index from the i-th field on; an exception ends it.
RECURSIVE BuildFrom(_, _)
BuildFrom(st, i) ==
    IF i > Len(FieldOrder) THEN st
    ELSE LET next == BuildField(st, FieldOrder[i])
         IN  IF next.exc # "None" THEN next ELSE BuildFrom(next, i + 1)

BuildResult ==
    BuildFrom([df |-> df, vectorizers |-> vectorizers, vectors |-> vectors,
               indices |-> indices, exc |-> "None"], 1)

\* What a call leaves for its caller: the exception raised ("None" when the
\* call returns) and the value returned.
Returned(op, query, field, k, exc, value) ==
    [op |-> op, query |-> query, field |-> field, k |-> k, exc |-> exc,
     value |-> value]

\* How many build_index calls have returned or raised: none, one, or more.
CallsAfter(n) == IF n = "none" THEN "one" ELSE "many"

\* build_index()
build_index ==
    \E r \in {BuildResult} :
        /\ df' = r.df
        /\ vectorizers' = r.vectorizers
        /\ vectors' = r.vectors
        /\ indices' = r.indices
        /\ builds' = CallsAfter(builds)
        /\ ret' = Returned("build_index", <<>>, "", 0, r.exc, <<>>)
        /\ UNCHANGED faissChecksK

\* Mutant of vectorize: the text is transformed by a vectorizer fitted on it.
vectorize_refit(vzs, text, field) ==
    IF field \notin DOMAIN vzs THEN [exc |-> "KeyError", vec |-> <<>>]
    ELSE IF FitRaises(<<text>>) THEN [exc |-> "ValueError", vec |-> <<>>]
    ELSE LET v == Transform(Fit(<<text>>), text)
         IN  [exc |-> "None", vec |-> Array([j \in 1..Len(v) |-> AsFloat32(v[j])])]

\* vectorize(text, field), as search uses it: the exception, or the vector
\* after .astype('float32').
vectorize(vzs, text, field) ==
    IF field \notin DOMAIN vzs THEN [exc |-> "KeyError", vec |-> <<>>]
    ELSE IF ~vzs[field].fitted THEN [exc |-> "NotFittedError", vec |-> <<>>]
    ELSE LET v == Transform(vzs[field], text)
         IN  [exc |-> "None", vec |-> Array([j \in 1..Len(v) |-> AsFloat32(v[j])])]

\* index.search(query_vector, k) of the Python wrapper: it asserts the
\* dimension, and from faiss 1.7.3 on that k > 0.
IndexSearch(index, q, k, checksK) ==
    IF Len(q) # index.d THEN [exc |-> "AssertionError", labels |-> <<>>]
    ELSE IF checksK /\ k = 0 THEN [exc |-> "AssertionError", labels |-> <<>>]
    ELSE [exc |-> "None", labels |-> SearchLabels(index, q, k)]

\* The outcome of search(query, field, k) on the attribute values given:
\* indices.tolist() of the 1 x k label array is a list holding one list.
SearchOutcome(vzs, idx, checksK, query, field, k) ==
    LET qv == vectorize(vzs, query, field)
    IN  IF qv.exc # "None" THEN [exc |-> qv.exc, value |-> <<>>]
        ELSE IF field \notin DOMAIN idx THEN [exc |-> "KeyError", value |-> <<>>]
        ELSE LET found == IndexSearch(idx[field], qv.vec, k, checksK)
             IN  IF found.exc # "None" THEN [exc |-> found.exc, value |-> <<>>]
                 ELSE [exc |-> "None", value |-> <<found.labels>>]

\* Mutant of search: the field's vectorizer is fitted on the query before
\* the query is transformed (fit_transform for transform).
search_refit(query, field, k) ==
    \E vzs \in {IF field \in DOMAIN vectorizers /\ ~FitRaises(<<query>>)
                 THEN [vectorizers EXCEPT ![field] = Fit(<<query>>)]
                 ELSE vectorizers} :
    \E out \in {SearchOutcome(vzs, indices, faissChecksK, query, field, k)} :
        /\ vectorizers' = vzs
        /\ ret' = Returned("search", query, field, k, out.exc, out.value)
        /\ UNCHANGED <<df, indices, vectors, faissChecksK, builds>>

\* search(query, field, k)
search(query, field, k) ==
    \E out \in {SearchOutcome(vectorizers, indices, faissChecksK, query, field, k)} :
        /\ ret' = Returned("search", query, field, k, out.exc, out.value)
        /\ UNCHANGED <<df, vectorizers, indices, vectors, faissChecksK, builds>>

-----------------------------------------------------------------------------
\* Inputs.

Timestamp(d, b, H, z) == [d |-> d, b |-> b, Y |-> 2023, H |-> H, M |-> 55, S |-> 36, z |-> z]

LogLine(ip, ts, url, status, ua) ==
    [ip_address |-> ip, timestamp |-> ts, method |-> <<"G", "E", "T">>, url |-> url,
     http_protocol |-> <<"H", "T", "T", "P", "/", "1", ".", "1">>, status |-> status,
     size |-> <<"5", "1", "2">>, referer |-> <<"-">>, user_agent |-> ua]

LineA == LogLine(<<"1", "0", ".", "0", ".", "0", ".", "1">>, Timestamp(10, "Oct", 13, 0),
                 <<"/", "a", "b">>, <<"2", "0", "0">>, <<"A", "b", " ", "c", "d">>)

LineB == LogLine(<<":", ":", "1">>, Timestamp(11, "Oct", 13, 0),
                 <<"/">>, <<"4", "0", "4">>, <<"-">>)

LineC == LogLine(<<"1", "0", ".", "0", ".", "0", ".", "1">>, Timestamp(10, "Nov", 8, 3),
                 <<"/", "a", "b", "/", "c", "d">>, <<"2", "0", "0">>, <<"-">>)

\* A line log_pattern does not match: its status has two digits.
LineBad == LogLine(<<":", ":", "1">>, Timestamp(11, "Oct", 13, 0),
                   <<"/", "a", "b">>, <<"2", "0">>, <<"a", "b">>)

LogLines == {LineA, LineB, LineC, LineBad}

LogFiles == UNION {[1..n -> LogLines] : n \in 0..MaxLines}

\* The (query, field) pairs given to search.
SearchInputs ==
    { <<<<"2", "0", "0">>, "status">>,
      <<<<"4", "0", "4">>, "status">>,
      <<<<"z", "z">>, "status">>,
      <<<<"/", "a", "b">>, "url">>,
      <<<<"/">>, "url">>,
      <<<<"A", "B", " ", "c", "d">>, "user_agent">>,
      <<DatetimeStr(Strptime(LineA.timestamp)), "timestamp">>,
      <<<<"2", "0", "0">>, "nonexistent_field">> }

Ks == 0..MaxK

-----------------------------------------------------------------------------
\* The state machine: the object after FaissIndex(log_file_path), then any
\* calls of build_index and search.

Init ==
    /\ \E lines \in LogFiles : df = parse_log(lines)
    /\ vectorizers = InitVectorizers
    /\ indices = EmptyDict
    /\ vectors = EmptyDict
    /\ faissChecksK \in BOOLEAN
    /\ builds = "none"
    /\ ret = Returned("__init__", <<>>, "", 0, "None", <<>>)

Search == \E in \in SearchInputs, k \in Ks : search(in[1], in[2], k)

Next == build_index \/ Search

Spec == Init /\ [][Next]_vars

-----------------------------------------------------------------------------
\* What the properties below speak of.

\* The last call was a search, and ret holds what it gave back.
Searched == ret.op = "search"

\* The last call was a search that returned a list.
SearchReturned == Searched /\ ret.exc = "None"

\* The last call was a build_index.
Built == ret.op = "build_index"

\* The field has a built index.
Indexed(field) == field \in DOMAIN indices

\* The rows of the field's index.
RowCount(field) == Len(indices[field].xb)

\* The labels returned for the query: the one row of the returned list.
Labels == ret.value[1]

\* The distance of the last query to each row of the field searched.
RetDistances ==
    Distances(indices[ret.field], vectorize(vectorizers, ret.query, ret.field).vec)

\* The stored values of a field, record by record.
Values(field) == Column(df, field)

\* The field is in the frame and fitting it would not raise.
Fittable(field) ==
    field \in df.columns /\ ~FitRaises(Column(AsTypeStr(df, field), field))

\* The records (1-based) whose value for the searched field is the query.
SelfRows == {r \in 1..Len(df.rows) : Values(ret.field)[r] = ret.query}

\* The rows before r that are at distance 0 of the query.
ZeroRowsBefore(r) == {i \in 1..(r - 1) : RetDistances[i] = 0}

\* The spec's example: status values "200", "404", "200".
ExampleCorpus ==
    /\ Len(df.rows) = 3
    /\ Values("status") = << <<"2", "0", "0">>, <<"4", "0", "4">>, <<"2", "0", "0">> >>

ExampleSearch ==
    /\ SearchReturned /\ Indexed("status") /\ ExampleCorpus
    /\ ret.query = <<"2", "0", "0">> /\ ret.field = "status" /\ ret.k = 2

-----------------------------------------------------------------------------
\* C1: a search on a field that has no built index fails with the explicit
\* error UnknownField, whatever the state, the query and k.
C1_UnknownField ==
    (Searched /\ ~Indexed(ret.field)) => ret.exc = "UnknownField"

\* C2: a search on an indexed field returns at most k labels, each a record
\* index in [0, rowCount), in order of non-decreasing distance to the query.
C2_ValidRanked ==
    (SearchReturned /\ Indexed(ret.field)) =>
        /\ Len(Labels) <= ret.k
        /\ \A p \in 1..Len(Labels) : Labels[p] \in 0..(RowCount(ret.field) - 1)
        /\ \A p, q \in 1..Len(Labels) :
              (p < q /\ Labels[p] >= 0 /\ Labels[q] >= 0) =>
                  RetDistances[Labels[p] + 1] <= RetDistances[Labels[q] + 1]

\* C3: a search with k greater than the row count returns exactly rowCount
\* labels, every row once, with no padding and no error.
C3_AllRows ==
    (Searched /\ Indexed(ret.field) /\ ret.k > RowCount(ret.field)) =>
        /\ ret.exc = "None"
        /\ Len(Labels) = RowCount(ret.field)
        /\ Range(Labels) = 0..(RowCount(ret.field) - 1)

\* C4: after build_index every field that does not itself fail has an index,
\* wherever the failing field stands in the iteration order.
C4_PartialSuccess ==
    Built => \A f \in Fields : Fittable(f) => Indexed(f)

C5_RowsAreRecords ==
    /\ DOMAIN vectors = DOMAIN indices
    /\ \A f \in DOMAIN indices :
          /\ Len(vectors[f]) = Len(df.rows)
          /\ RowCount(f) = Len(df.rows)
          /\ \A i \in 1..Len(df.rows) :
                /\ vectors[f][i] = vectorize(vectorizers, Values(f)[i], f).vec
                /\ indices[f].xb[i] = vectors[f][i]

\* Every field indexed, three records, and two fields of different dimension.
C5_Witness ==
    /\ Built /\ DOMAIN indices = Fields /\ Len(df.rows) = 3
    /\ indices["status"].d # indices["timestamp"].d
    /\ Values("url")[1] # Values("url")[3]

C7_RebuildSameResults ==
    [][(builds # "none" /\ ret'.op = "build_index") =>
          \/ <<vectorizers, indices, faissChecksK>>' = <<vectorizers, indices, faissChecksK>>
          \/ \A in \in SearchInputs, k \in Ks :
                SearchOutcome(vectorizers', indices', faissChecksK', in[1], in[2], k)
                    = SearchOutcome(vectorizers, indices, faissChecksK, in[1], in[2], k)]_vars

\* A second build_index has returned on a corpus it indexes in full.
C7_Witness == Built /\ builds = "many" /\ ret.exc = "None" /\ Len(df.rows) >= 2

\* C9: a search, returning or raising, changes nothing of the vectorizers,
\* the vectors, the indices and the frame.
C9_SearchIsPureRead == [][ret'.op = "search" => UNCHANGED engine]_vars

\* A search has returned two labels or more after a build.
C9_Witness == SearchReturned /\ builds # "none" /\ Len(Labels) >= 2

\* C10: for every indexed field the vector of a query has the dimension of
\* the field's index and matrix, and the vectorizer holds the statistics
\* fitted on the field's column.
C10_QueryDimension ==
    \A f \in DOMAIN indices :
        /\ vectorizers[f] = Fit(Values(f))
        /\ \A i \in 1..Len(vectors[f]) : Len(vectors[f][i]) = indices[f].d
        /\ \A in \in SearchInputs :
              LET qv == vectorize(vectorizers, in[1], f)
              IN  qv.exc = "None" /\ Len(qv.vec) = indices[f].d

\* A search has returned on an engine whose build failed part-way.
C10_Witness ==
    /\ SearchReturned /\ ret.k >= 1
    /\ \E f \in Fields : ~Indexed(f)

====
